---- MODULE Spec2Model ----
(***************************************************************************)
(* CodeTrace: the session recorder (RecordingManager), the commit watcher  *)
(* (GitTracker) and the session store (.codetrace directory) of            *)
(* src/src/extension.ts, as a state machine.                               *)
(*                                                                         *)
(* One action is one run-to-completion piece of a handler: the code from   *)
(* its invocation (or from the resumption of an await) up to the next      *)
(* await on the repository inspector or on the filesystem.                 *)
(*                                                                         *)
(* Commit hashes are the positions 1..Len(repo) of the commits in the      *)
(* repository's history, 0 is the empty string ''.  The repository history *)
(* is linear and only grows.  Time is a counter, one unit of which is      *)
(* 1/TicksPerMinute of a minute; every event that is given a timestamp     *)
(* (a session is created or finalized, a file is saved, a commit is made)  *)
(* takes one unit, so that no two sessions share a startTime.              *)
(*                                                                         *)
(* An await whose result the code ignores and after which it changes no    *)
(* state (getRemotes in fetchRepoName, createDirectory in                  *)
(* saveSessionToFile) is part of the step that ends at the next await.     *)
(***************************************************************************)
EXTENDS FiniteSets, Integers, Sequences, TLC

\* ---------------------------------------------------------------- bounds
MaxTime == 4            \* the clock stops here
MaxStarts == 2          \* start() calls that pass the guards, in total
MaxCommits == 2         \* commits the repository holds at most
MaxPolls == 2           \* polls in flight (awaiting git.log) at most
MaxStops == 2           \* stop() calls suspended in the save at most
MaxChanges == 2         \* file changes a session holds at most
OldSessions == 2        \* documents that earlier runs left in the store
MaxOps == 1             \* store commands (summary, delete) in flight at most
StoreTicks == 2         \* clock ticks left when the store commands are used
MaxPull == 11           \* commits that one pull or merge lands at most
MaxHistory == 13        \* commits the repository holds at most after a pull
TicksPerMinute == 2     \* clock units per minute
TicksPerDay == 3        \* clock units per day, in the time of day of a prompt

\* ------------------------------------------------------- program constants
LogMaxCount == 10       \* git.log({ maxCount: 10 })
DefaultMaxSessions == 50 \* config.get('maxSessionsToKeep') || 50
MaxSessionsToKeep == 2  \* the configured value of codetrace.maxSessionsToKeep
PromptFiles == 20       \* data.filesChanged.slice(0, 20)
PromptDirectories == 10 \* data.uniqueDirectories.slice(0, 10)
PromptChanges == 15     \* data.fileChangeTimeline.slice(0, 15)

\* workspace-relative paths, as sequences of path characters and names:
\* a.ts, node_modules/x.js and node_modules/.cache
Files == {<<"a", ".", "ts">>,
          <<"node_modules", "/", "x", ".", "js">>,
          <<"node_modules", "/", ".", "cache">>}

\* codetrace.ignorePatterns: node_modules/**
IgnorePatterns == {<<"node_modules", "/", "*", "*">>}

Absent == -1            \* an optional field that is not set (undefined)

VARIABLES
    \* RecordingManager
    isRecording,        \* this.isRecording
    currentSession,     \* this.currentSession (NoSession is null)
    saveListener,       \* this.saveListener is not null
    filesChangedCount,  \* this.filesChangedCount
    uniqueFilesChanged, \* this.uniqueFilesChanged
    \* GitTracker
    git,                \* this.git: number of the simple-git instance, 0 is null
    isGitRepo,          \* this.isGitRepo
    lastSeenCommitHash, \* this.lastSeenCommitHash, 0 is ''
    pollInterval,       \* this.pollInterval is not null
    onCommitCallback,   \* this.onCommitCallback is not null
    \* the host (VS Code, node timers)
    liveSaveListeners,  \* onDidSaveTextDocument subscriptions not disposed
    liveTimers,         \* setInterval timers not cleared
    notification,       \* the message the last step handed to showNotification
    unhandled,          \* a public operation ended with an uncaught exception
    \* the environment
    now,                \* the clock
    repo,               \* the repository history: commit dates, oldest first
    store,              \* .codetrace: startTime of the file name -> document
    maxSessionsToKeep,  \* the setting codetrace.maxSessionsToKeep
    \* asynchronous calls in flight
    starts,             \* startRecording calls, by the await they are suspended in
    stops,              \* stopRecording calls suspended in saveSessionToFile
    polls,              \* checkForNewCommits calls awaiting git.log
    \* history
    nextId,             \* number of session objects created so far
    finalized,          \* ids of the sessions that stop() has finalized
    historyAtStart,     \* Len(repo) when the current session was created
    lastPoll,           \* what the poll did, if the last step resumed one
    missed,             \* history length at the last failed poll since a successful one
    saveEvents,         \* the saves notified since the current session was created
    \* the commands on stored sessions
    ops,                \* generateSessionSummary / deleteSession calls in flight
    loaded              \* what loadAllSessions returned, if the last step ended one

vars == <<isRecording, currentSession, saveListener, filesChangedCount,
          uniqueFilesChanged, git, isGitRepo, lastSeenCommitHash, pollInterval,
          onCommitCallback, liveSaveListeners, liveTimers, notification,
          unhandled, now, repo, store, maxSessionsToKeep, starts, stops,
          polls, nextId, finalized, historyAtStart, lastPoll, missed,
          saveEvents, ops, loaded>>

envVars == <<now, repo, store, maxSessionsToKeep>>
historyVars == <<nextId, finalized, historyAtStart, saveEvents>>
commandVars == <<ops, loaded>>

managerVars == <<isRecording, currentSession, saveListener, filesChangedCount,
                 uniqueFilesChanged>>
trackerVars == <<git, isGitRepo, lastSeenCommitHash, pollInterval,
                 onCommitCallback>>
hostVars == <<liveSaveListeners, liveTimers>>

\* ------------------------------------------------------------ data model
NoStats == [filesChanged |-> Absent, commitsCount |-> Absent, duration |-> Absent]

NoSession ==
    [sessionId |-> 0, startTime |-> Absent, endTime |-> Absent,
     repository |-> FALSE, changes |-> <<>>, commits |-> <<>>,
     stats |-> NoStats, summary |-> FALSE]

\* the optional fields of SessionData and the value of one that is undefined
Undefined ==
    [endTime |-> Absent, repository |-> FALSE, stats |-> NoStats,
     summary |-> FALSE]

SessionKeys == DOMAIN NoSession

\* a serializer that writes only the members SessionData requires
StringifyRequired(s) == [k \in {j \in DOMAIN s : j \notin DOMAIN Undefined} |-> s[k]]

\* JSON.stringify(session, null, 2): the members whose value is not undefined
Stringify(s) ==
    [k \in {j \in DOMAIN s : j \notin DOMAIN Undefined \/ s[j] # Undefined[j]}
        |-> s[k]]

\* the text of a file that JSON.parse rejects
Corrupt == [corrupt |-> TRUE]

Parses(doc) == "corrupt" \notin DOMAIN doc

\* JSON.parse(text) read as SessionData: a member the text lacks is undefined
Parse(doc) ==
    [k \in SessionKeys |-> IF k \in DOMAIN doc THEN doc[k] ELSE Undefined[k]]

\* session-<startTime with ':' and '.' replaced by '-'>.json
FileName(startTime) == startTime

NoPoll == [kind |-> "none", cancelled |-> FALSE, snap |-> 0, emitted |-> <<>>,
           retried |-> 0, overlapped |-> FALSE]

\* a directory without files
NoFiles == [n \in {} |-> Corrupt]

\* no loadAllSessions call returned in this step; of a call that returned:
\* the sessions it returned, the names readDirectory listed, the documents
\* readFile delivered and the names whose readFile was rejected
NoLoad == [done |-> FALSE, sessions |-> <<>>, listed |-> {}, seen |-> NoFiles,
           unread |-> {}]

StartAwaits == {"checkIsRepo", "log"}

Min(a, b) == IF a < b THEN a ELSE b

\* Math.round((end - start) / 60000), as a number of minutes
calculateDuration(startTime, endTime) ==
    (2 * (endTime - startTime) + TicksPerMinute) \div (2 * TicksPerMinute)

RECURSIVE ReplaceStarStar(_)
\* line 140: pattern.replace(/\*\*/g, '.*')
ReplaceStarStar(p) ==
    IF p = <<>> THEN <<>>
    ELSE IF Len(p) >= 2 /\ p[1] = "*" /\ p[2] = "*"
    THEN <<".", "*">> \o ReplaceStarStar(Tail(Tail(p)))
    ELSE <<p[1]>> \o ReplaceStarStar(Tail(p))

RECURSIVE ReplaceStar(_)
\* line 141: .replace(/\*/g, '[^/]*'), which also rewrites the '*' that
\* line 140 has just written
ReplaceStar(p) ==
    IF p = <<>> THEN <<>>
    ELSE IF p[1] = "*" THEN <<"[^/]", "*">> \o ReplaceStar(Tail(p))
    ELSE <<p[1]>> \o ReplaceStar(Tail(p))

RECURSIVE EscapeDots(_)
\* line 142: .replace(/\./g, '\\.'), which also escapes the '.' that
\* line 140 has written
EscapeDots(p) ==
    IF p = <<>> THEN <<>>
    ELSE IF p[1] = "." THEN <<"\\.">> \o EscapeDots(Tail(p))
    ELSE <<p[1]>> \o EscapeDots(Tail(p))

\* lines 139-142: the source of the regular expression built from a pattern
regexPattern(pattern) == EscapeDots(ReplaceStar(ReplaceStarStar(pattern)))

\* one atom of a regular expression matches one character of a path
AtomMatches(a, c) ==
    IF a = "[^/]" THEN c # "/"
    ELSE IF a = "\\." THEN c = "."
    ELSE IF a = "." THEN TRUE
    ELSE a = c

RECURSIVE MatchHere(_, _)
\* the regular expression re matches a prefix of s
MatchHere(re, s) ==
    IF re = <<>> THEN TRUE
    ELSE IF Len(re) >= 2 /\ re[2] = "*"
    THEN \E k \in 0..Len(s) :
            /\ \A j \in 1..k : AtomMatches(re[1], s[j])
            /\ MatchHere(Tail(Tail(re)), SubSeq(s, k + 1, Len(s)))
    ELSE /\ s # <<>>
         /\ AtomMatches(re[1], s[1])
         /\ MatchHere(Tail(re), Tail(s))

\* line 144: new RegExp(re).test(s), a match anywhere in s
RegExpTest(re, s) == \E i \in 1..(Len(s) + 1) : MatchHere(re, SubSeq(s, i, Len(s)))

\* lines 132-149
shouldIgnoreFile(filePath) ==
    \E pattern \in IgnorePatterns : RegExpTest(regexPattern(pattern), filePath)

RECURSIVE GlobMatches(_, _)
\* the path s matches the glob pattern p: ** stands for any characters, *
\* for any characters other than '/'
GlobMatches(p, s) ==
    IF p = <<>> THEN s = <<>>
    ELSE IF Len(p) >= 2 /\ p[1] = "*" /\ p[2] = "*"
    THEN \E k \in 0..Len(s) : GlobMatches(Tail(Tail(p)), SubSeq(s, k + 1, Len(s)))
    ELSE IF p[1] = "*"
    THEN \E k \in 0..Len(s) :
            /\ \A j \in 1..k : s[j] # "/"
            /\ GlobMatches(Tail(p), SubSeq(s, k + 1, Len(s)))
    ELSE /\ s # <<>>
         /\ p[1] = s[1]
         /\ GlobMatches(Tail(p), Tail(s))

\* the paths that match a configured ignore rule
IgnoredFiles == {f \in Files : \E pattern \in IgnorePatterns : GlobMatches(pattern, f)}

\* the CommitInfo built from the commit at position h of the history
CommitInfo(h) == [hash |-> h, timestamp |-> repo[h]]

\* the document of the k-th last session of an earlier run of the extension
OldSession(k) ==
    [sessionId |-> 0 - k, startTime |-> 0 - 2 * k - 1, endTime |-> 0 - 2 * k,
     repository |-> FALSE, changes |-> <<>>, commits |-> <<>>,
     stats |-> [filesChanged |-> 0, commitsCount |-> 0,
                duration |-> calculateDuration(0, 1)],
     summary |-> FALSE]

OldStore ==
    [n \in {FileName(OldSession(k).startTime) : k \in 1..OldSessions} |->
        Stringify(OldSession((0 - n - 1) \div 2))]

\* a commit made during the last session of an earlier run
OldHistory == <<OldSession(1).endTime>>

InitFrom(history, docs, time) ==
    /\ isRecording = FALSE
    /\ currentSession = NoSession
    /\ saveListener = FALSE
    /\ filesChangedCount = 0
    /\ uniqueFilesChanged = {}
    /\ git = 0
    /\ isGitRepo = FALSE
    /\ lastSeenCommitHash = 0
    /\ pollInterval = FALSE
    /\ onCommitCallback = FALSE
    /\ liveSaveListeners = 0
    /\ liveTimers = 0
    /\ notification = "none"
    /\ unhandled = FALSE
    /\ now = time
    /\ repo = history
    /\ store = docs
    /\ maxSessionsToKeep = MaxSessionsToKeep
    /\ starts = [a \in StartAwaits |-> 0]
    /\ stops = <<>>
    /\ polls = <<>>
    /\ nextId = 0
    /\ finalized = {}
    /\ historyAtStart = 0
    /\ lastPoll = NoPoll
    /\ missed = 0
    /\ saveEvents = <<>>
    /\ ops = <<>>
    /\ loaded = NoLoad

InitWith(history) == InitFrom(history, OldStore, 0)

\* the state when startRecording() has returned for the first session,
\* created at start in a folder whose .codetrace holds docs; tracking: the
\* folder is a repository with this history and the commit watcher runs
RecordingUnder(history, docs, start, tracking, setting) ==
    /\ isRecording = TRUE
    /\ currentSession = [NoSession EXCEPT !.sessionId = 1,
                                          !.startTime = start,
                                          !.repository = tracking]
    /\ saveListener = TRUE
    /\ filesChangedCount = 0
    /\ uniqueFilesChanged = {}
    /\ git = 1
    /\ isGitRepo = tracking
    /\ lastSeenCommitHash = IF tracking THEN Len(history) ELSE 0
    /\ pollInterval = tracking
    /\ onCommitCallback = tracking
    /\ liveSaveListeners = 1
    /\ liveTimers = IF tracking THEN 1 ELSE 0
    /\ notification = "none"
    /\ unhandled = FALSE
    /\ now = start + 1
    /\ repo = history
    /\ store = docs
    /\ maxSessionsToKeep = setting
    /\ starts = [a \in StartAwaits |-> 0]
    /\ stops = <<>>
    /\ polls = <<>>
    /\ nextId = 1
    /\ finalized = {}
    /\ historyAtStart = Len(history)
    /\ lastPoll = NoPoll
    /\ missed = 0
    /\ saveEvents = <<>>
    /\ ops = <<>>
    /\ loaded = NoLoad

\* the same under the setting of the scenarios
Recording(history, docs, start, tracking) ==
    RecordingUnder(history, docs, start, tracking, MaxSessionsToKeep)

Init == InitWith(<<>>)

\* a step that shows no notification, a step that resumes no poll
Quiet == notification' = "none"
\* no command on stored sessions moves in this step
NoCommandStep == ops' = ops /\ loaded' = NoLoad
\* no poll is resumed in this step
SamePolls == lastPoll' = NoPoll /\ missed' = missed
NoPollStep == SamePolls /\ NoCommandStep

\* ------------------------------------------------------- the environment
\* a commit is created in the repository
Commit ==
    /\ Len(repo) < MaxCommits
    /\ now < MaxTime
    /\ repo' = Append(repo, now)
    /\ now' = now + 1
    /\ Quiet /\ NoPollStep
    /\ UNCHANGED <<managerVars, trackerVars, hostVars, unhandled, store,
                   maxSessionsToKeep, starts, stops, polls, historyVars>>

\* time passes without an event
Tick ==
    /\ now < MaxTime
    /\ now' = now + 1
    /\ Quiet /\ NoPollStep
    /\ UNCHANGED <<managerVars, trackerVars, hostVars, unhandled, repo, store,
                   maxSessionsToKeep, starts, stops, polls, historyVars>>

\* one commit is made, or a pull or merge lands MaxPull commits at once
Pull ==
    \E k \in {1, MaxPull} :
       /\ Len(repo) + k <= MaxHistory
       /\ now < MaxTime
       /\ repo' = repo \o [j \in 1..k |-> now]
       /\ now' = now + 1
       /\ Quiet /\ NoPollStep
       /\ UNCHANGED <<managerVars, trackerVars, hostVars, unhandled, store,
                      maxSessionsToKeep, starts, stops, polls, historyVars>>

\* ------------------------------------------------------- startRecording
\* startTracking(onCommit) passes its guard; isRepo is this.isGitRepo
TrackingStarts(gitAvailable, isRepo) == gitAvailable /\ isRepo /\ git # 0

\* the session object of lines 408-414
NewSession(id, gitAvailable) ==
    [sessionId |-> id, startTime |-> now, endTime |-> Absent,
     repository |-> gitAvailable, changes |-> <<>>, commits |-> <<>>,
     stats |-> NoStats, summary |-> FALSE]

\* lines 407-434: the rest of startRecording once initialize() has returned
BeginSession(gitAvailable, isRepo) ==
    /\ now < MaxTime
    /\ currentSession' = NewSession(nextId + 1, gitAvailable)
    /\ nextId' = nextId + 1
    /\ historyAtStart' = Len(repo)
    /\ saveEvents' = <<>>
    /\ now' = now + 1
    /\ filesChangedCount' = 0
    /\ uniqueFilesChanged' = {}
    /\ isRecording' = TRUE
    /\ saveListener' = TRUE
    /\ liveSaveListeners' = liveSaveListeners + 1
    /\ IF TrackingStarts(gitAvailable, isRepo)
       THEN /\ onCommitCallback' = TRUE
            /\ pollInterval' = TRUE
            /\ liveTimers' = liveTimers + 1
       ELSE UNCHANGED <<onCommitCallback, pollInterval, liveTimers>>
    /\ notification' = "Recording started"

\* startRecording without its isRecording guard
StartRejectedNever == FALSE

\* lines 393-396: startRecording returns at once
StartRejected == isRecording

\* a start() that creates the simple-git instance before it looks for the
\* workspace root
WatcherCreatedFirst == git + 1

\* lines 398-402: the watcher when startRecording returns without a root
WatcherAfterAbort == git

\* startRecording() is invoked: the guards, and initialize() up to checkIsRepo
StartCall ==
    \E hasRoot \in BOOLEAN :
       /\ IF StartRejected
          THEN /\ notification' = "Already recording!"
               /\ UNCHANGED <<git, starts>>
          ELSE IF ~hasRoot
          THEN /\ notification' = "Please open a folder before recording"
               /\ git' = WatcherAfterAbort
               /\ UNCHANGED starts
          ELSE /\ git < MaxStarts
               /\ git' = git + 1
               /\ starts' = [starts EXCEPT !["checkIsRepo"] = @ + 1]
               /\ Quiet
       /\ NoPollStep
       /\ UNCHANGED <<managerVars, isGitRepo, lastSeenCommitHash, pollInterval,
                      onCommitCallback, hostVars, unhandled, envVars, stops,
                      polls, historyVars>>

\* checkIsRepo() resolves or rejects; fetchRepoName runs and
\* fetchLastCommitHash calls git.log({ maxCount: 1 })
StartCheckIsRepo ==
    /\ starts["checkIsRepo"] > 0
    /\ \E isRepo \in BOOLEAN :
          IF isRepo
          THEN /\ isGitRepo' = TRUE
               /\ starts' = [starts EXCEPT !["checkIsRepo"] = @ - 1,
                                           !["log"] = @ + 1]
               /\ Quiet
               /\ UNCHANGED <<managerVars, git, lastSeenCommitHash,
                              pollInterval, onCommitCallback, hostVars, now,
                              historyVars>>
          ELSE /\ isGitRepo' = FALSE
               /\ starts' = [starts EXCEPT !["checkIsRepo"] = @ - 1]
               /\ BeginSession(FALSE, FALSE)
               /\ UNCHANGED <<git, lastSeenCommitHash, finalized>>
    /\ NoPollStep
    /\ UNCHANGED <<unhandled, repo, store, maxSessionsToKeep, stops, polls>>

\* fetchLastCommitHash: the checkpoint after git.log({ maxCount: 1 }) on the
\* history, ok when the call resolves
fetchLastCommitHash(history, ok) ==
    IF ~ok THEN 0
    ELSE IF Len(history) > 0 THEN Len(history)
    ELSE lastSeenCommitHash

\* git.log({ maxCount: 1 }) resolves or rejects (it rejects when there is no
\* commit); initialize() returns true and startRecording runs to its end
StartLog ==
    /\ starts["log"] > 0
    /\ \E ok \in BOOLEAN :
          /\ Len(repo) = 0 => ~ok
          /\ lastSeenCommitHash' = fetchLastCommitHash(repo, ok)
    /\ starts' = [starts EXCEPT !["log"] = @ - 1]
    /\ BeginSession(TRUE, isGitRepo)
    /\ NoPollStep
    /\ UNCHANGED <<git, isGitRepo, unhandled, repo, store, maxSessionsToKeep,
                   stops, polls, finalized>>

\* ------------------------------------------------------- recordFileSave
\* a recordFileSave that counts every save, also of a file saved before
recordEverySave(st, recording, f) ==
    IF st.s.sessionId = 0 \/ ~recording \/ shouldIgnoreFile(f) THEN st
    ELSE [s |-> [st.s EXCEPT !.changes =
                    Append(@, [file |-> f, timestamp |-> now, content |-> 1])],
          u |-> st.u \cup {f},
          c |-> st.c + 1]

\* one invocation of recordFileSave on the state st = [s, u, c]: the session,
\* uniqueFilesChanged and filesChangedCount
recordFileSave(st, recording, f) ==
    IF st.s.sessionId = 0 \/ ~recording \/ shouldIgnoreFile(f) THEN st
    ELSE LET u == st.u \cup {f}
         IN [s |-> [st.s EXCEPT !.changes =
                        Append(@, [file |-> f, timestamp |-> now, content |-> 1])],
             u |-> u,
             c |-> IF f \in st.u THEN st.c ELSE Cardinality(u)]

RECURSIVE NotifySave(_, _, _, _)
\* the host calls every live onDidSaveTextDocument listener in turn
NotifySave(n, st, recording, f) ==
    IF n = 0 THEN st
    ELSE NotifySave(n - 1, recordFileSave(st, recording, f), recording, f)

\* a document is saved in the editor
FileSave ==
    \E f \in Files :
       LET st0 == [s |-> currentSession, u |-> uniqueFilesChanged,
                   c |-> filesChangedCount]
           st1 == NotifySave(liveSaveListeners, st0, isRecording, f)
       IN /\ liveSaveListeners > 0
          /\ Len(currentSession.changes) < MaxChanges
          /\ Len(saveEvents) < MaxChanges
          /\ now < MaxTime
          /\ now' = now + 1
          /\ currentSession' = st1.s
          /\ uniqueFilesChanged' = st1.u
          /\ filesChangedCount' = st1.c
          /\ saveEvents' = Append(saveEvents, [file |-> f, timestamp |-> now])
          /\ Quiet /\ NoPollStep
          /\ UNCHANGED <<isRecording, saveListener, trackerVars, hostVars,
                         unhandled, repo, store, maxSessionsToKeep, starts,
                         stops, polls, nextId, finalized, historyAtStart>>

\* ------------------------------------------------------- GitTracker polls
\* lines 285: checkForNewCommits returns at once
PollSkipped == git = 0 \/ ~onCommitCallback

\* a poll that this timer started is still awaiting git.log
PreviousPollPending ==
    \E j \in 1..Len(polls) : polls[j].gen = git /\ ~polls[j].cancelled

\* the timer fires: checkForNewCommits passes its guard and calls git.log;
\* overlapped: the tick fired while the previous poll was awaiting the log
PollTick ==
    /\ liveTimers > 0
    /\ ~PollSkipped
    /\ Len(polls) < MaxPolls
    /\ polls' = Append(polls, [gen |-> git, snap |-> Absent, cancelled |-> FALSE,
                               overlapped |-> PreviousPollPending])
    /\ Quiet /\ NoPollStep
    /\ UNCHANGED <<managerVars, trackerVars, hostVars, unhandled, envVars,
                   starts, stops, historyVars>>

\* simple-git runs one process at a time per instance (maxConcurrentProcesses: 1)
HeadOfInstance(i) == \A j \in 1..(i - 1) : polls[j].gen # polls[i].gen

\* the git process of poll i reads the history
PollGitLog ==
    \E i \in 1..Len(polls) :
       /\ polls[i].snap = Absent
       /\ HeadOfInstance(i)
       /\ polls' = [polls EXCEPT ![i].snap = Len(repo)]
       /\ Quiet /\ NoPollStep
       /\ UNCHANGED <<managerVars, trackerVars, hostVars, unhandled, envVars,
                      starts, stops, historyVars>>

\* git.log without the maxCount option
LogAllNoLimit(n) == [k \in 1..n |-> n + 1 - k]

\* log.all of git.log({ maxCount: 10 }) on a history of n commits, newest first
LogAll(n) == [k \in 1..Min(n, LogMaxCount) |-> n + 1 - k]

RECURSIVE ScanNew(_, _)
\* lines 292-301: the commits of all before the checkpoint, in scan order
ScanNew(all, checkpoint) ==
    IF all = <<>> \/ Head(all) = checkpoint THEN <<>>
    ELSE <<Head(all)>> \o ScanNew(Tail(all), checkpoint)

Reverse(s) == [k \in 1..Len(s) |-> s[Len(s) + 1 - k]]

\* newCommits without line 304, in the order of the scan
NewCommitsNewestFirst(n, checkpoint) == ScanNew(LogAll(n), checkpoint)

\* line 304: newCommits, oldest first
NewCommits(n, checkpoint) == Reverse(ScanNew(LogAll(n), checkpoint))

\* recordCommit(commit) on the session s
recordCommit(s, recording, h) ==
    IF s.sessionId = 0 \/ ~recording THEN s
    ELSE [s EXCEPT !.commits = Append(@, CommitInfo(h))]

RECURSIVE EmitAll(_, _, _)
\* lines 305-308: the callback for every commit of hs in turn
EmitAll(s, recording, hs) ==
    IF hs = <<>> THEN s
    ELSE EmitAll(recordCommit(s, recording, Head(hs)), recording, Tail(hs))

\* lines 311-313: the checkpoint after a poll that saw the history up to n
Checkpoint(n) == IF n > 0 THEN n ELSE lastSeenCommitHash

\* a catch block that moves the checkpoint to the head of the history
CheckpointMarkedSeen(n) == IF n > 0 THEN n ELSE lastSeenCommitHash

\* lines 314-316: the checkpoint after a poll whose git.log was rejected
CheckpointAfterFailure(n) == lastSeenCommitHash

\* the callback that a resumed poll calls: this.onCommitCallback
PollCallback == onCommitCallback

RemoveAt(s, i) == SubSeq(s, 1, i - 1) \o SubSeq(s, i + 1, Len(s))

\* git.log of poll i resolves or rejects (it rejects when there is no commit)
\* and checkForNewCommits runs to its end
PollResume ==
    \E i \in 1..Len(polls), ok \in BOOLEAN :
       LET p == polls[i]
           new == NewCommits(p.snap, lastSeenCommitHash)
           base == [NoPoll EXCEPT !.cancelled = p.cancelled, !.snap = p.snap,
                                  !.retried = missed,
                                  !.overlapped = p.overlapped]
       IN /\ p.snap # Absent
          /\ HeadOfInstance(i)
          /\ p.snap = 0 => ~ok
          /\ polls' = RemoveAt(polls, i)
          /\ IF ~ok
             THEN \* git.log failed: line 315
                  /\ lastPoll' = [base EXCEPT !.kind = "failed"]
                  /\ missed' = IF p.snap > missed THEN p.snap ELSE missed
                  /\ lastSeenCommitHash' = CheckpointAfterFailure(p.snap)
                  /\ UNCHANGED currentSession
             ELSE IF new # <<>> /\ ~PollCallback
             THEN \* this.onCommitCallback is null: the call throws, line 315
                  /\ lastPoll' = [base EXCEPT !.kind = "threw"]
                  /\ UNCHANGED <<currentSession, lastSeenCommitHash, missed>>
             ELSE /\ currentSession' = EmitAll(currentSession, isRecording, new)
                  /\ lastSeenCommitHash' = Checkpoint(p.snap)
                  /\ lastPoll' = [base EXCEPT !.kind = "ok", !.emitted = new]
                  /\ missed' = IF p.snap >= missed THEN 0 ELSE missed
          /\ Quiet /\ NoCommandStep
          /\ UNCHANGED <<isRecording, saveListener, filesChangedCount,
                         uniqueFilesChanged, git, isGitRepo, pollInterval,
                         onCommitCallback, hostVars, unhandled, envVars,
                         starts, stops, historyVars>>

\* ------------------------------------------------------- stopRecording
\* config.get('maxSessionsToKeep') || 50
maxSessions ==
    IF maxSessionsToKeep = 0 THEN DefaultMaxSessions ELSE maxSessionsToKeep

RECURSIVE SortedNames(_)
\* the session file names of the directory, sorted
SortedNames(S) ==
    IF S = {} THEN <<>>
    ELSE LET m == CHOOSE x \in S : \A y \in S : x <= y
         IN <<m>> \o SortedNames(S \ {m})

\* the store after writeFile of doc under name, after delete of name
WriteFile(st, name, doc) ==
    [n \in (DOMAIN st) \cup {name} |-> IF n = name THEN doc ELSE st[n]]

DeleteFile(st, name) == [n \in (DOMAIN st) \ {name} |-> st[n]]

\* a stop() suspended in saveSessionToFile; before: the names of the
\* documents that the store held when stop() was called
NewStop == [pc |-> "readDirectory", files |-> <<>>, target |-> Absent,
            json |-> NoSession, before |-> {}, steps |-> <<>>,
            dispose |-> FALSE]

\* no handler is running the loop of lines 615-622 without end: the thread
\* runs other handlers
EventLoopFree == \A i \in 1..Len(stops) : stops[i].pc # "while"

\* a stopRecording that writes the session before it sets endTime and stats
SaveBeforeFinalize ==
    <<"stopTracking", "saveListener.dispose", "saveSessionToFile", "endTime",
      "stats">>

\* lines 508-525: the statements that stopRecording executes for a session,
\* in the order in which it executes them, up to its first await
stopRecordingSteps ==
    <<"stopTracking", "saveListener.dispose", "endTime", "stats",
      "saveSessionToFile">>

\* lines 542-546
ResetState ==
    /\ isRecording' = FALSE
    /\ currentSession' = NoSession
    /\ filesChangedCount' = 0
    /\ uniqueFilesChanged' = {}

\* stopRecording that resets the state only inside if (saved)
FinishStopOnlyIfSaved(s, saved, failure) ==
    IF s.sessionId # 0 /\ saved
    THEN /\ ResetState
         /\ notification' = "Recording saved!"
         /\ UNCHANGED unhandled
    ELSE /\ unhandled' = (unhandled \/ s.sessionId = 0)
         /\ notification' = IF failure THEN "Failed to save session" ELSE "none"
         /\ UNCHANGED <<isRecording, currentSession, filesChangedCount,
                        uniqueFilesChanged>>

\* lines 527-549 for the session s that this.currentSession holds when
\* saveSessionToFile has returned saved; failure when it has shown its error
FinishStop(s, saved, failure) ==
    IF s.sessionId = 0
    THEN \* this.currentSession.commits of null: the promise of stop() rejects
         /\ unhandled' = TRUE
         /\ notification' = IF failure THEN "Failed to save session" ELSE "none"
         /\ UNCHANGED <<isRecording, currentSession, filesChangedCount,
                        uniqueFilesChanged>>
    ELSE /\ ResetState
         /\ notification' = IF saved THEN "Recording saved!"
                            ELSE IF failure THEN "Failed to save session"
                            ELSE "none"
         /\ UNCHANGED unhandled

\* stopTracking()
stopTracking ==
    /\ pollInterval' = FALSE
    /\ liveTimers' = IF pollInterval THEN liveTimers - 1 ELSE liveTimers
    /\ onCommitCallback' = FALSE
    /\ polls' = [k \in 1..Len(polls) |-> [polls[k] EXCEPT !.cancelled = TRUE]]

\* lines 510-513
DisposeSaveListener ==
    /\ saveListener' = FALSE
    /\ liveSaveListeners' =
           IF saveListener THEN liveSaveListeners - 1 ELSE liveSaveListeners

\* lines 517-522: endTime and stats of the session
Finalize(s) ==
    [s EXCEPT !.endTime = now,
              !.stats = [filesChanged |-> filesChangedCount,
                         commitsCount |-> Len(s.commits),
                         duration |-> calculateDuration(s.startTime, now)]]

\* stopRecording without its isRecording guard
StopRejectedNever == FALSE

\* lines 503-506: stopRecording returns at once
StopRejected == ~isRecording

\* GitTracker.dispose(), lines 336-339
gitTrackerDispose ==
    /\ stopTracking
    /\ git' = 0

\* lines 726-727 of a dispose() whose stopRecording() has returned, and the
\* return of a stopRecording() that the stop command called
AfterStop(byDispose) == git' = IF byDispose THEN 0 ELSE git

\* stopRecording() is invoked by the stop command or by dispose(): lines
\* 502-525 and saveSessionToFile up to readDirectory; without a workspace
\* root stopRecording runs to its end
stopRecording(byDispose) ==
    \E hasRoot \in BOOLEAN :
       /\ EventLoopFree
       /\ IF StopRejected
          THEN /\ notification' = "Not currently recording"
               /\ NoPollStep
               /\ UNCHANGED <<managerVars, trackerVars, hostVars, unhandled,
                              envVars, starts, stops, polls, historyVars>>
          ELSE /\ now < MaxTime
               /\ stopTracking
               /\ DisposeSaveListener
               /\ IF currentSession.sessionId = 0
                  THEN /\ ResetState
                       /\ AfterStop(byDispose)
                       /\ Quiet
                       /\ UNCHANGED <<unhandled, now, stops, finalized>>
                  ELSE /\ now' = now + 1
                       /\ finalized' = finalized \cup {currentSession.sessionId}
                       /\ IF hasRoot
                          THEN /\ Len(stops) < MaxStops
                               /\ stops' = Append(stops,
                                      [NewStop EXCEPT
                                          !.before = DOMAIN store,
                                          !.steps = stopRecordingSteps,
                                          !.dispose = byDispose])
                               /\ currentSession' = Finalize(currentSession)
                               /\ Quiet
                               /\ UNCHANGED <<isRecording, filesChangedCount,
                                              uniqueFilesChanged, unhandled,
                                              git>>
                          ELSE /\ FinishStop(Finalize(currentSession), FALSE, FALSE)
                               /\ AfterStop(byDispose)
                               /\ UNCHANGED stops
               /\ NoPollStep
               /\ UNCHANGED <<isGitRepo, lastSeenCommitHash, repo, store,
                              maxSessionsToKeep, starts, nextId, historyAtStart,
                              saveEvents>>

\* the stop command: stopRecording() is invoked
StopCall == stopRecording(FALSE)

\* dispose() is invoked, lines 722-728: when recording it calls
\* stopRecording() and goes on when that has returned; when idle it disposes
\* the commit watcher at once
DisposeCall ==
    IF isRecording
    THEN stopRecording(TRUE)
    ELSE /\ gitTrackerDispose
         /\ Quiet
         /\ SamePolls /\ NoCommandStep
         /\ UNCHANGED <<managerVars, isGitRepo, lastSeenCommitHash,
                        liveSaveListeners, unhandled, envVars, starts, stops,
                        historyVars>>

\* lines 575-584 of stop i: the file name and the JSON text are taken from
\* this.currentSession, then writeFile is called
AfterCleanup(i) ==
    IF currentSession.sessionId = 0
    THEN \* this.currentSession.startTime of null, caught at line 589
         /\ stops' = RemoveAt(stops, i)
         /\ FinishStop(currentSession, FALSE, TRUE)
    ELSE /\ stops' = [stops EXCEPT ![i].pc = "writeFile",
                                   ![i].json = Stringify(currentSession)]
         /\ Quiet
         /\ UNCHANGED <<managerVars, unhandled>>

\* lines 615-622 of stop i with sessionFiles = files. On an empty array
\* shift() returns undefined, line 617 skips the delete and its await, and
\* the condition of line 615 is evaluated again on the same values: the
\* loop does not end and the thread never runs another handler
CleanupLoop(i, files) ==
    IF Len(files) >= maxSessions
    THEN /\ stops' = IF files = <<>>
                     THEN [stops EXCEPT ![i].pc = "while"]
                     ELSE [stops EXCEPT ![i].pc = "delete",
                                        ![i].target = Head(files),
                                        ![i].files = Tail(files)]
         /\ Quiet
         /\ UNCHANGED <<managerVars, unhandled>>
    ELSE AfterCleanup(i)

\* line 604: readDirectory resolves or rejects
SaveReadDirectory ==
    \E i \in 1..Len(stops), ok \in BOOLEAN :
       /\ EventLoopFree
       /\ stops[i].pc = "readDirectory"
       /\ IF ok THEN CleanupLoop(i, SortedNames(DOMAIN store))
                ELSE AfterCleanup(i)
       /\ NoPollStep
       /\ UNCHANGED <<saveListener, trackerVars, hostVars, envVars, starts,
                      polls, historyVars>>

\* line 619: fs.delete of the oldest file resolves or rejects
SaveDelete ==
    \E i \in 1..Len(stops), ok \in BOOLEAN :
       /\ EventLoopFree
       /\ stops[i].pc = "delete"
       /\ IF ok /\ stops[i].target \in DOMAIN store
          THEN /\ store' = DeleteFile(store, stops[i].target)
               /\ CleanupLoop(i, stops[i].files)
          ELSE /\ UNCHANGED store
               /\ AfterCleanup(i)
       /\ NoPollStep
       /\ UNCHANGED <<saveListener, trackerVars, hostVars, now, repo,
                      maxSessionsToKeep, starts, polls, historyVars>>

\* line 584: writeFile resolves or rejects, and stopRecording runs to its end
SaveWriteFile ==
    \E i \in 1..Len(stops), ok \in BOOLEAN :
       /\ EventLoopFree
       /\ stops[i].pc = "writeFile"
       /\ stops' = RemoveAt(stops, i)
       /\ store' = IF ok THEN WriteFile(store, FileName(stops[i].json.startTime),
                                         stops[i].json)
                         ELSE store
       /\ FinishStop(currentSession, ok, ~ok)
       /\ IF stops[i].dispose /\ currentSession.sessionId # 0
          THEN gitTrackerDispose
          ELSE UNCHANGED <<git, pollInterval, liveTimers, onCommitCallback,
                           polls>>
       /\ NoPollStep
       /\ UNCHANGED <<saveListener, isGitRepo, lastSeenCommitHash,
                      liveSaveListeners, now, repo, maxSessionsToKeep, starts,
                      historyVars>>

\* ------------------------------------------- the summarization request
RECURSIVE Unique(_)
\* [...new Set(s)]: the elements of s in the order of their first occurrence
Unique(s) ==
    IF s = <<>> THEN <<>>
    ELSE LET r == Unique(SubSeq(s, 1, Len(s) - 1))
         IN  IF \E i \in 1..Len(r) : r[i] = s[Len(s)] THEN r
             ELSE Append(r, s[Len(s)])

\* s.slice(0, n)
Slice(s, n) == SubSeq(s, 1, Min(n, Len(s)))

\* new Date(timestamp).toLocaleTimeString(): the time of day, without the date
toLocaleTimeString(timestamp) == timestamp % TicksPerDay

\* lines 259-262: the directory of the path f, '/' for a path without one
Directory(f) ==
    LET slashes == {i \in 1..Len(f) : f[i] = "/"}
    IN  IF slashes = {} THEN <<"/">>
        ELSE SubSeq(f, 1, (CHOOSE i \in slashes : \A j \in slashes : j <= i) - 1)

\* an entry of the timeline that carries the content of the file as well
TimelineEntryWithContent(c) ==
    [file |-> c.file, time |-> toLocaleTimeString(c.timestamp),
     content |-> c.content]

\* lines 246-249: the entry of the file change timeline for the change c
TimelineEntry(c) == [file |-> c.file, time |-> toLocaleTimeString(c.timestamp)]

\* lines 252-255: the entry for the commit c, with the message of that commit
CommitEntry(c) == [message |-> <<"message of", c.hash>>,
                   time |-> toLocaleTimeString(c.timestamp)]

\* lines 234-276
prepareAnalysisData(session) ==
    LET filesChanged ==
            Unique([i \in 1..Len(session.changes) |-> session.changes[i].file])
    IN  [duration |-> <<IF session.stats = NoStats \/ session.stats.duration = 0
                        THEN "Unknown" ELSE session.stats.duration,
                        " minutes">>,
         repository |-> session.repository,
         filesChanged |-> filesChanged,
         fileChangeTimeline |->
             [i \in 1..Len(session.changes) |-> TimelineEntry(session.changes[i])],
         commits |->
             [i \in 1..Len(session.commits) |-> CommitEntry(session.commits[i])],
         uniqueDirectories |->
             Unique([i \in 1..Len(filesChanged) |-> Directory(filesChanged[i])])]

\* lines 281-325: the prompt, line by line
buildPrompt(data) ==
    LET files == Slice(data.filesChanged, PromptFiles)
        dirs == Slice(data.uniqueDirectories, PromptDirectories)
        changes == Slice(data.fileChangeTimeline, PromptChanges)
    IN  <<  <<"Analyze this coding session and generate a summary.">>,
            <<"**Session Duration:**", data.duration>> >>
        \o (IF data.repository THEN << <<"**Repository:**", data.repository>> >>
                               ELSE <<>>)
        \o << <<"**Files Modified", Len(data.filesChanged)>> >>
        \o [i \in 1..Len(files) |-> <<"- file", files[i]>>]
        \o (IF Len(data.filesChanged) > PromptFiles
            THEN << <<"- ... and more files",
                      Len(data.filesChanged) - PromptFiles>> >>
            ELSE <<>>)
        \o << <<"**Directory Structure:**">> >>
        \o [i \in 1..Len(dirs) |-> <<"- directory", dirs[i] \o <<"/">> >>]
        \o (IF Len(data.commits) > 0
            THEN << <<"**Commits Made", Len(data.commits)>> >>
                 \o [i \in 1..Len(data.commits) |->
                        <<"- commit", data.commits[i].message,
                          data.commits[i].time>>]
            ELSE <<>>)
        \o << <<"**File Change Timeline (first 15 changes):**">> >>
        \o [i \in 1..Len(changes) |->
               <<"- change", changes[i].time, changes[i].file>>]
        \o << <<"Based on this information, generate a JSON summary of what was accomplished in this coding session.">> >>

\* ------------------------------------- commands on the stored sessions
\* a generateSessionSummary or deleteSession call suspended in an await,
\* with the locals of loadAllSessions and the session the user selected
NewOp(cmd) ==
    [cmd |-> cmd, pc |-> "readDirectory", names |-> <<>>, sessions |-> <<>>,
     listed |-> {}, seen |-> NoFiles, unread |-> {}, picked |-> NoSession,
     prompt |-> <<>>]

\* lines 817-820 and 991-994: the message when loadAllSessions returned []
NoSessionsMessage(cmd) ==
    IF cmd = "summary" THEN "No sessions found. Start recording first!"
    ELSE "No sessions to delete"

\* loadAllSessions of command i returns op.sessions to its caller, which
\* returns when there is none and opens the quick pick otherwise
LoadReturn(i, op) ==
    /\ loaded' = [done |-> TRUE, sessions |-> op.sessions,
                  listed |-> op.listed, seen |-> op.seen,
                  unread |-> op.unread]
    /\ IF op.sessions = <<>>
       THEN /\ ops' = RemoveAt(ops, i)
            /\ notification' = NoSessionsMessage(op.cmd)
       ELSE /\ ops' = [ops EXCEPT ![i] = [op EXCEPT !.pc = "pick"]]
            /\ Quiet

\* the session file names sorted, not reversed
SessionFilesOldestFirst(names) == SortedNames(names)

\* lines 1056-1064: the session file names, sorted and reversed
SessionFiles(names) == Reverse(SortedNames(names))

\* the commands leave the recorder, the watcher and the clock alone
CommandStep ==
    /\ SamePolls
    /\ UNCHANGED <<managerVars, trackerVars, hostVars, unhandled, now, repo,
                   maxSessionsToKeep, starts, stops, polls, historyVars>>

\* the user runs Generate Summary or Delete Session: loadAllSessions is
\* called and, with a workspace root, calls readDirectory
CommandCall ==
    \E cmd \in {"summary", "delete"}, hasRoot \in BOOLEAN :
       /\ IF hasRoot
          THEN /\ Len(ops) < MaxOps
               /\ ops' = Append(ops, NewOp(cmd))
               /\ loaded' = NoLoad
               /\ Quiet
          ELSE /\ ops' = ops
               /\ loaded' = [NoLoad EXCEPT !.done = TRUE]
               /\ notification' = NoSessionsMessage(cmd)
       /\ CommandStep
       /\ UNCHANGED store

\* lines 1051-1055: readDirectory resolves or rejects
LoadReadDirectory ==
    \E i \in 1..Len(ops), ok \in BOOLEAN :
       /\ ops[i].pc = "readDirectory"
       /\ LET op == [ops[i] EXCEPT !.names = SessionFiles(DOMAIN store),
                                    !.listed = DOMAIN store,
                                    !.pc = "readFile"]
          IN IF ~ok THEN LoadReturn(i, ops[i])
             ELSE IF op.names = <<>> THEN LoadReturn(i, op)
             ELSE /\ ops' = [ops EXCEPT ![i] = op]
                  /\ loaded' = NoLoad
                  /\ Quiet
       /\ CommandStep
       /\ UNCHANGED store

\* lines 1069-1077: readFile of the next file resolves or rejects, and its
\* text parses or not
LoadReadFile ==
    \E i \in 1..Len(ops), ok \in BOOLEAN :
       /\ ops[i].pc = "readFile"
       /\ LET n == Head(ops[i].names)
              op == IF ok /\ n \in DOMAIN store
                    THEN [ops[i] EXCEPT
                            !.names = Tail(@),
                            !.seen = WriteFile(@, n, store[n]),
                            !.sessions = IF Parses(store[n])
                                         THEN Append(@, Parse(store[n]))
                                         ELSE @]
                    ELSE [ops[i] EXCEPT !.names = Tail(@),
                                        !.unread = @ \cup {n}]
          IN IF op.names = <<>> THEN LoadReturn(i, op)
             ELSE /\ ops' = [ops EXCEPT ![i] = op]
                  /\ loaded' = NoLoad
                  /\ Quiet
       /\ CommandStep
       /\ UNCHANGED store

\* the user answers the quick pick (k = 0: dismissed) and the prompt that
\* follows it: Regenerate for a session that has a summary (lines 838-849),
\* Delete in the confirmation (lines 1013-1019)
CommandPick ==
    \E i \in 1..Len(ops), go \in BOOLEAN :
       \E k \in 0..Len(ops[i].sessions) :
          /\ ops[i].pc = "pick"
          /\ IF k = 0 \/ (~go /\ (ops[i].cmd = "delete"
                                      \/ ops[i].sessions[k].summary))
             THEN ops' = RemoveAt(ops, i)
             ELSE ops' = [ops EXCEPT ![i] =
                            [NewOp(ops[i].cmd) EXCEPT
                               !.pc = IF ops[i].cmd = "summary" THEN "ai"
                                      ELSE "delete",
                               !.picked = ops[i].sessions[k]]]
          /\ loaded' = NoLoad
          /\ Quiet
          /\ CommandStep
          /\ UNCHANGED store

\* lines 859-864: aiService.generateSessionSummary resolves with a summary
\* or with null; the summary is set on the loaded session and
\* saveSessionWithSummary calls writeFile
SummaryAI ==
    \E i \in 1..Len(ops), got \in BOOLEAN :
       /\ ops[i].pc = "ai"
       /\ IF got
          THEN ops' = [ops EXCEPT ![i].pc = "writeFile",
                                  ![i].picked.summary = TRUE,
                                  ![i].prompt = buildPrompt(
                                      prepareAnalysisData(ops[i].picked))]
          ELSE ops' = RemoveAt(ops, i)
       /\ loaded' = NoLoad
       /\ Quiet
       /\ CommandStep
       /\ UNCHANGED store

\* lines 1096-1102 and 866-869: writeFile resolves or rejects; the result
\* of saveSessionWithSummary is not looked at
SummaryWriteFile ==
    \E i \in 1..Len(ops), ok \in BOOLEAN :
       /\ ops[i].pc = "writeFile"
       /\ store' = IF ok
                   THEN WriteFile(store, FileName(ops[i].picked.startTime),
                                  Stringify(ops[i].picked))
                   ELSE store
       /\ ops' = RemoveAt(ops, i)
       /\ loaded' = NoLoad
       /\ notification' = "Summary"
       /\ CommandStep

\* lines 1030-1035: fs.delete resolves, or rejects as it does for a file
\* that does not exist
DeleteResolve ==
    \E i \in 1..Len(ops), ok \in BOOLEAN :
       LET name == FileName(ops[i].picked.startTime)
       IN /\ ops[i].pc = "delete"
          /\ IF ok /\ name \in DOMAIN store
             THEN /\ store' = DeleteFile(store, name)
                  /\ notification' = "Session deleted"
             ELSE /\ UNCHANGED store
                  /\ notification' = "Failed to delete session"
          /\ ops' = RemoveAt(ops, i)
          /\ loaded' = NoLoad
          /\ CommandStep

\* ------------------------------------------------------- specifications
Next ==
    \/ Commit
    \/ StartCall
    \/ StartCheckIsRepo
    \/ StartLog
    \/ FileSave
    \/ PollTick
    \/ PollGitLog
    \/ PollResume
    \/ StopCall
    \/ SaveReadDirectory
    \/ SaveDelete
    \/ SaveWriteFile

Spec == Init /\ [][Next]_vars

\* the recorder and the store, in a repository where nobody commits
NextRecorder ==
    \/ StartCall
    \/ StartCheckIsRepo
    \/ StartLog
    \/ FileSave
    \/ StopCall
    \/ SaveReadDirectory
    \/ SaveDelete
    \/ SaveWriteFile

SpecRecorder == Init /\ [][NextRecorder]_vars

\* dispose() has been invoked: it is suspended in stopRecording(), or it has
\* returned and the watcher instance of the sessions is gone
Disposed ==
    \/ git = 0 /\ nextId > 0
    \/ \E i \in 1..Len(stops) : stops[i].dispose

\* the start command, which the extension host removes when it disposes the
\* extension
StartCommand == ~Disposed /\ StartCall

\* the extension host disposes the recorder, once and while no start() is
\* in progress
Deactivate ==
    /\ ~Disposed
    /\ git > 0
    /\ \A a \in StartAwaits : starts[a] = 0
    /\ DisposeCall

\* the recorder and the store up to the deactivation of the extension
NextDispose ==
    \/ StartCommand
    \/ StartCheckIsRepo
    \/ StartLog
    \/ FileSave
    \/ StopCall
    \/ Deactivate
    \/ SaveReadDirectory
    \/ SaveDelete
    \/ SaveWriteFile

SpecDispose == Init /\ [][NextDispose]_vars

\* the recorder and the commit watcher in a repository that has a commit,
\* while no file is saved
NextTracker ==
    \/ Commit
    \/ StartCall
    \/ StartCheckIsRepo
    \/ StartLog
    \/ PollTick
    \/ PollGitLog
    \/ PollResume
    \/ StopCall
    \/ SaveReadDirectory
    \/ SaveDelete
    \/ SaveWriteFile

SpecTracker == InitWith(OldHistory) /\ [][NextTracker]_vars

\* the commit watcher of one recording in a repository where pulls land
\* several commits between two polls
NextWindow ==
    \/ Pull
    \/ StartCall
    \/ StartCheckIsRepo
    \/ StartLog
    \/ PollTick
    \/ PollGitLog
    \/ PollResume

SpecWindow == InitWith(OldHistory) /\ [][NextWindow]_vars

\* a file of .codetrace that is not a session document, next to the
\* documents of the earlier runs
CorruptName == FileName(OldSession(1).startTime) - 1

StoreDocs == WriteFile(OldStore, CorruptName, Corrupt)

\* the start of the recording that runs when the commands are first used
StoreStart == MaxTime - StoreTicks - 1

\* the end of one recording, in a repository where nobody commits, and the
\* commands on the stored sessions
NextStore ==
    \/ FileSave
    \/ StopCall
    \/ SaveReadDirectory
    \/ SaveDelete
    \/ SaveWriteFile
    \/ CommandCall
    \/ LoadReadDirectory
    \/ LoadReadFile
    \/ CommandPick
    \/ SummaryAI
    \/ SummaryWriteFile
    \/ DeleteResolve

SpecStore == Recording(<<>>, StoreDocs, StoreStart, FALSE) /\ [][NextStore]_vars

\* the start T0 of a recording that can last five minutes and be stopped
ScenarioStart == MaxTime - 5 * TicksPerMinute - 1

\* a whole number of minutes has passed since T0
OnTheMinute == (now - ScenarioStart) % TicksPerMinute = 0

\* the user saves a file, commits or stops the recording on the minute
MinuteSave == OnTheMinute /\ FileSave

MinuteCommit == OnTheMinute /\ Commit

MinuteStop == OnTheMinute /\ StopCall

\* one recording of up to five minutes in a repository, from the return of
\* start() on: saves, commits and stop() on the minute, polls at any time
NextScenario ==
    \/ Tick
    \/ MinuteSave
    \/ MinuteCommit
    \/ PollTick
    \/ PollGitLog
    \/ PollResume
    \/ MinuteStop
    \/ SaveReadDirectory
    \/ SaveDelete
    \/ SaveWriteFile

SpecScenario ==
    Recording(OldHistory, OldStore, ScenarioStart, TRUE) /\ [][NextScenario]_vars

\* ------------------------------------------------------------- properties
\* the sessions created so far that stop() has not finalized
Unfinalized == (1..nextId) \ finalized

\* C1: under every interleaving of start() and stop(), at most one session
\* has been created and not yet finalized: a start() issued after another
\* start() was accepted never creates a second session object
C1_AtMostOneSession == Cardinality(Unfinalized) <= 1

\* C2: a start() invoked while the recorder is Recording is rejected with the
\* warning, creates no session and leaves the session (sessionId, startTime,
\* changes, commits) and the distinct-file count as they are
C2_SecondStartRejected ==
    [][(StartCall /\ isRecording) =>
          /\ notification' = "Already recording!"
          /\ nextId' = nextId
          /\ currentSession' = currentSession
          /\ uniqueFilesChanged' = uniqueFilesChanged
          /\ filesChangedCount' = filesChangedCount
          /\ starts' = starts]_vars

\* a start() has just been rejected while a session with a recorded change
\* was active
C2_Witness ==
    /\ notification = "Already recording!"
    /\ isRecording
    /\ currentSession.sessionId = 1
    /\ Len(currentSession.changes) > 0
    /\ nextId = 1

\* C3: a stop() invoked while the recorder is Idle is rejected with the
\* warning: recorder state, session, subscriptions and stored documents stay
\* as they are and no save is begun
C3_StopWhileIdleRejected ==
    [][(StopCall /\ ~isRecording) =>
          /\ notification' = "Not currently recording"
          /\ UNCHANGED <<isRecording, currentSession, saveListener,
                         liveSaveListeners, pollInterval, onCommitCallback,
                         liveTimers, store, stops>>]_vars

\* a stop() has just been rejected in Idle, after a session was recorded and
\* with no save in flight
C3_Witness ==
    /\ notification = "Not currently recording"
    /\ ~isRecording
    /\ nextId > 0
    /\ stops = <<>>

\* the step ends a stopRecording call that had passed its guard
StopEnds ==
    \/ Len(stops') < Len(stops)
    \/ StopCall /\ isRecording /\ stops' = stops

\* C4: every accepted stop() ends with the recorder Idle and the session
\* reference cleared, whatever the outcome of the save
C4_StopEndsIdle ==
    [][StopEnds => (~isRecording' /\ currentSession' = NoSession)]_vars

\* a stop() has just ended with a failed save: the recorder is Idle, the
\* session is cleared and its document is not in the store
C4_Witness ==
    /\ notification = "Failed to save session"
    /\ ~isRecording
    /\ currentSession = NoSession
    /\ finalized = {1}
    /\ \A n \in DOMAIN store : store[n].sessionId # 1

\* C5: once stop() has set endTime and stats of a session, nothing is appended
\* to its changes or commits
C5_FinalizedIsFrozen ==
    [][(currentSession.endTime # Absent
        /\ currentSession'.sessionId = currentSession.sessionId) =>
          /\ currentSession'.changes = currentSession.changes
          /\ currentSession'.commits = currentSession.commits]_vars

\* C6: a poll that was in flight when stopTracking() was called invokes no
\* commit callback when it resumes
C6_NoCallbackAfterStop == lastPoll.cancelled => lastPoll.emitted = <<>>

\* C7: a successful poll that finds the history as it was when the session
\* started invokes no callback; a successful poll that finds exactly one
\* commit after the checkpoint invokes the callback once, with that commit,
\* and the checkpoint becomes its hash
C7_CheckpointCorrect ==
    [][lastPoll'.kind = "ok" =>
          /\ lastPoll'.snap = historyAtStart' => lastPoll'.emitted = <<>>
          /\ lastPoll'.snap = lastSeenCommitHash + 1 =>
                /\ lastPoll'.emitted = <<lastPoll'.snap>>
                /\ lastSeenCommitHash' = lastPoll'.snap]_vars

\* no hash occurs twice in the commits cs
Distinct(cs) ==
    \A i, j \in 1..Len(cs) : cs[i].hash = cs[j].hash => i = j

\* C8: no commit hash occurs more than once in the commits of a session
C8_NoDuplicateCommit == Distinct(currentSession.commits)

\* the timestamps of the events es never decrease
Sorted(es) ==
    \A i, j \in 1..Len(es) : i < j => es[i].timestamp <= es[j].timestamp

\* s is a prefix of t
Prefix(s, t) == Len(s) <= Len(t) /\ SubSeq(t, 1, Len(s)) = s

\* C9: while a session is recorded its changes and its commits only grow at
\* the end, and each is in non-decreasing order of timestamp
C9_AppendOnlySorted ==
    /\ [](Sorted(currentSession.changes) /\ Sorted(currentSession.commits))
    /\ [][currentSession'.sessionId = currentSession.sessionId =>
             /\ Prefix(currentSession.changes, currentSession'.changes)
             /\ Prefix(currentSession.commits, currentSession'.commits)]_vars

\* C10: no commit that was in the repository when start() initialized the
\* watcher is appended to the commits of the session
C10_NoPreSessionCommit ==
    \A i \in 1..Len(currentSession.commits) :
       currentSession.commits[i].hash > historyAtStart

\* C11: every commit made while a session was Recording with a repository
\* available (after the session's startTime and before its endTime) is in
\* the commits of the document that stop() stored for the session
C11_CommitsPersisted ==
    \A n \in DOMAIN store :
       LET d == Parse(store[n])
       IN (d.sessionId > 0 /\ d.repository) =>
             \A h \in 1..Len(repo) :
                (d.startTime < repo[h] /\ repo[h] < d.endTime) =>
                   \E i \in 1..Len(d.commits) : d.commits[i].hash = h

\* the hashes of the commits of session s
Hashes(s) == {s.commits[i].hash : i \in 1..Len(s.commits)}

\* the commits made during session s that its polls have skipped: a later
\* commit has been emitted and they have not
Overflow(s) ==
    {h \in (historyAtStart + 1)..Len(repo) :
        h \notin Hashes(s) /\ \E g \in Hashes(s) : g > h}

\* the n most recent commits of a history of length snap, oldest first
MostRecent(snap, n) == [k \in 1..n |-> snap - n + k]

\* C12: one poll emits at most 10 commits; a successful poll that finds more
\* than 10 commits after the checkpoint emits exactly the 10 most recent, and
\* a commit of the session that the polls have skipped is never emitted by a
\* later poll of the session
C12_BoundedWindow ==
    /\ [](Len(lastPoll.emitted) <= LogMaxCount)
    /\ [][(lastPoll'.kind = "ok" /\ onCommitCallback
              /\ lastPoll'.snap - lastSeenCommitHash > LogMaxCount) =>
             lastPoll'.emitted = MostRecent(lastPoll'.snap, LogMaxCount)]_vars
    /\ [][currentSession'.sessionId = currentSession.sessionId =>
             Overflow(currentSession) \cap Hashes(currentSession') = {}]_vars

\* more than 10 commits landed between two polls, the poll emitted 10 of
\* them, and a later poll has emitted a newer commit
C12_Witness ==
    /\ Overflow(currentSession) # {}
    /\ Len(currentSession.commits) > LogMaxCount
    /\ lastPoll.kind = "ok"
    /\ Len(lastPoll.emitted) = 1
    /\ lastPoll.emitted[1] = Len(repo)

\* the hashes h with from < h <= to, oldest first
Between(from, to) == [k \in 1..(to - from) |-> from + k]

\* C13: a poll whose git.log fails invokes no callback and leaves the
\* checkpoint, the session and the timer as they are; the next successful
\* poll that looks the log up after it emits the commits the failed poll
\* missed (those after the checkpoint, when they fit the window of 10)
C13_FailedPollRetried ==
    /\ [][lastPoll'.kind = "failed" =>
             /\ lastPoll'.emitted = <<>>
             /\ UNCHANGED <<lastSeenCommitHash, currentSession, pollInterval,
                            liveTimers, onCommitCallback>>]_vars
    /\ [][(lastPoll'.kind = "ok" /\ missed > lastSeenCommitHash
              /\ lastPoll'.snap >= missed
              /\ lastPoll'.snap - lastSeenCommitHash <= LogMaxCount) =>
             lastPoll'.emitted = Between(lastSeenCommitHash, lastPoll'.snap)]_vars

\* a poll has failed while a commit was waiting, and the next poll has just
\* emitted that commit into the session
C13_Witness ==
    /\ lastPoll.kind = "ok"
    /\ ~lastPoll.cancelled
    /\ lastPoll.retried = Len(repo)
    /\ lastPoll.emitted = <<Len(repo)>>
    /\ Len(repo) > historyAtStart
    /\ missed = 0
    /\ Hashes(currentSession) = {Len(repo)}

\* the oldest document of a set of names: the smallest file name
Oldest(names) == CHOOSE x \in names : \A y \in names : x <= y

\* C14: when stop() saves a new session while the store holds exactly
\* maxSessions documents, exactly one document is deleted, the one with the
\* smallest file name, and the store holds exactly maxSessions documents
\* when the save has written the session
C14_Retention ==
    [][\A i \in 1..Len(stops) :
          LET name == FileName(stops[i].json.startTime)
              before == stops[i].before
          IN (/\ stops[i].pc = "writeFile"
              /\ stops' = RemoveAt(stops, i)
              /\ name \in DOMAIN store'
              /\ store'[name] = stops[i].json
              /\ name \notin before
              /\ Cardinality(before) = maxSessions)
             => /\ DOMAIN store' = (before \ {Oldest(before)}) \cup {name}
                /\ Cardinality(DOMAIN store') = maxSessions]_vars

\* a stop() of this run has saved its session, and the document is stored
SaveCompleted ==
    \E n \in DOMAIN store : Parses(store[n]) /\ store[n].sessionId > 0

\* the retention bound, once a save has completed
StoreBounded == SaveCompleted => Cardinality(DOMAIN store) <= maxSessions

\* C15: once a stop() has saved a session, the number of stored session
\* documents never exceeds maxSessions; in particular no summary attachment
\* takes a store that is within the bound above it, also not when the
\* session was loaded before an eviction or a deletion removed its document
C15_SummaryKeepsBound ==
    [][(StoreBounded /\ notification' = "Summary") => StoreBounded']_vars

\* the fields of a document that attaching a summary has to leave alone
KeptFields == {"changes", "commits", "stats", "startTime", "endTime"}

\* a step in which saveSessionWithSummary of command i has written its
\* session while a document of the same name was stored
Resaves(i) ==
    LET name == FileName(ops[i].picked.startTime)
    IN /\ ops[i].pc = "writeFile"
       /\ ops' = RemoveAt(ops, i)
       /\ notification' = "Summary"
       /\ name \in DOMAIN store
       /\ Parses(store[name])
       /\ store' = WriteFile(store, name, Stringify(ops[i].picked))

\* C16: re-saving a stored session to attach a summary overwrites the
\* document named after its startTime: the set of stored documents is the
\* same, every other document is unchanged, and the document's changes,
\* commits, stats, startTime and endTime are unchanged
C16_ResaveOverwrites ==
    [][\A i \in 1..Len(ops) :
          Resaves(i) =>
             LET name == FileName(ops[i].picked.startTime)
             IN /\ DOMAIN store' = DOMAIN store
                /\ \A n \in DOMAIN store : n # name => store'[n] = store[n]
                /\ Parse(store'[name]).summary
                /\ \A k \in KeptFields :
                      Parse(store'[name])[k] = Parse(store[name])[k]]_vars

\* the names of the documents that a loadAllSessions call read and that parse
Readable(l) == {n \in DOMAIN l.seen : Parses(l.seen[n])}

\* C17: loadAllSessions returns exactly the sessions of the documents that
\* it could read and that parse, one for each, however many of the listed
\* files are rejected or fail to parse, the most recent file name first
C17_LoadAllSkipsAndSorts ==
    loaded.done =>
       /\ DOMAIN loaded.seen \cup loaded.unread = loaded.listed
       /\ Len(loaded.sessions) = Cardinality(Readable(loaded))
       /\ \A n \in Readable(loaded) :
             \E i \in 1..Len(loaded.sessions) :
                loaded.sessions[i] = Parse(loaded.seen[n])
       /\ \A i \in 1..Len(loaded.sessions) :
             /\ FileName(loaded.sessions[i].startTime) \in Readable(loaded)
             /\ \A j \in 1..Len(loaded.sessions) :
                   i < j => FileName(loaded.sessions[i].startTime)
                               > FileName(loaded.sessions[j].startTime)

\* a load of one corrupted document that lies between two valid ones
C17_Witness ==
    /\ loaded.done
    /\ Len(loaded.sessions) = 2
    /\ CorruptName \in DOMAIN loaded.seen
    /\ FileName(loaded.sessions[2].startTime) < CorruptName
    /\ CorruptName < FileName(loaded.sessions[1].startTime)

\* a step in which deleteSession of command i ends after its fs.delete call
Deletes(i) == ops[i].pc = "delete" /\ ops' = RemoveAt(ops, i)

\* C18: deleting a session removes its document, or reports the failure
\* when fs.delete is rejected, and leaves every other document as it is;
\* when the document is already missing no failure is reported and the
\* store is unchanged
C18_DeleteMissingIsNoError ==
    [][\A i \in 1..Len(ops) :
          Deletes(i) =>
             LET name == FileName(ops[i].picked.startTime)
             IN /\ DOMAIN store \ {name} = DOMAIN store' \ {name}
                /\ \A n \in DOMAIN store \ {name} : store'[n] = store[n]
                /\ name \in DOMAIN store' =>
                      notification' = "Failed to delete session"
                /\ name \notin DOMAIN store =>
                      /\ notification' # "Failed to delete session"
                      /\ store' = store]_vars

\* the fields of a session that are populated when it is saved
Populated(s) == {k \in SessionKeys : k \notin DOMAIN Undefined \/ s[k] # Undefined[k]}

TimelineEvents(s) ==
    [k \in 1..Len(s.changes) |->
        [type |-> "save", time |-> s.changes[k].timestamp]]
    \o [k \in 1..Len(s.commits) |->
        [type |-> "commit", time |-> s.commits[k].timestamp]]

RECURSIVE InsertEvent(_, _)
\* e put before the first event of the sorted es that is not earlier
InsertEvent(e, es) ==
    IF es = <<>> \/ e.time <= Head(es).time THEN <<e>> \o es
    ELSE <<Head(es)>> \o InsertEvent(e, Tail(es))

RECURSIVE SortByTime(_)
\* line 971: Array.prototype.sort by time, which is stable
SortByTime(es) ==
    IF es = <<>> THEN <<>>
    ELSE InsertEvent(Head(es), SortByTime(Tail(es)))

\* a timeline that lists the saves and then the commits
TimelineUnsorted(s) == TimelineEvents(s)

\* lines 968-972: allEvents of generateMarkdownReport
Timeline(s) == SortByTime(TimelineEvents(s))

Minutes(m) == m * TicksPerMinute

\* the session of document d was started at T0 = ScenarioStart and stopped
\* at T0 + 5 min, the same file was saved at T0 + 1 min and T0 + 3 min, and
\* one commit was made at T0 + 2 min and seen by a poll of the watcher
InScenario(d) ==
    /\ d.sessionId = 1
    /\ d.startTime = ScenarioStart
    /\ d.endTime = ScenarioStart + Minutes(5)
    /\ Len(saveEvents) = 2
    /\ saveEvents[1].timestamp = ScenarioStart + Minutes(1)
    /\ saveEvents[2].timestamp = ScenarioStart + Minutes(3)
    /\ saveEvents[1].file = saveEvents[2].file
    /\ ~shouldIgnoreFile(saveEvents[1].file)
    /\ Len(repo) = historyAtStart + 1
    /\ repo[Len(repo)] = ScenarioStart + Minutes(2)
    /\ lastSeenCommitHash = Len(repo)

\* C20: start() at T0, the same file saved at T0 + 1 min and T0 + 3 min, one
\* commit at T0 + 2 min, stop() at T0 + 5 min: the persisted session has two
\* changes, one commit, stats filesChanged 1, commitsCount 1, duration 5,
\* and its timeline sorted by time lists the commit between the two saves
C20_Scenario ==
    \A n \in DOMAIN store :
       LET d == Parse(store[n])
       IN InScenario(d) =>
             /\ Len(d.changes) = 2
             /\ Len(d.commits) = 1
             /\ d.stats = [filesChanged |-> 1, commitsCount |-> 1, duration |-> 5]
             /\ [k \in 1..Len(Timeline(d)) |-> Timeline(d)[k].type]
                   = <<"save", "commit", "save">>

\* the session of the scenario has been persisted
C20_Witness ==
    /\ stops = <<>>
    /\ ~isRecording
    /\ \E n \in DOMAIN store : InScenario(Parse(store[n]))

\* the session that is recorded was created by a start() whose initialize()
\* reported that no repository is available
Untracked == currentSession.sessionId > 0 /\ ~currentSession.repository

\* C21: when initialize() reports unavailable the session is created and
\* recorded with repository absent, no poll timer runs and the commit
\* callback is never invoked for that session: it holds no commit and no
\* poll hands one to it
C21_NoTrackingWithoutRepository ==
    /\ [](Untracked /\ isRecording =>
             /\ liveTimers = 0
             /\ ~pollInterval
             /\ ~onCommitCallback
             /\ currentSession.commits = <<>>)
    /\ [][(Untracked' /\ lastPoll'.kind = "ok") => lastPoll'.emitted = <<>>]_vars

\* C22: a start() without a workspace root returns before a session object
\* is created: the recorder stays idle, no save subscription and no poll
\* timer is set up, and the repository watcher is not initialized
C22_NoWorkspaceAborts ==
    [][notification' = "Please open a folder before recording" =>
          /\ ~isRecording'
          /\ UNCHANGED <<managerVars, trackerVars, hostVars, starts, stops,
                         polls, nextId, store>>]_vars

\* a start() without a workspace root was refused after a recording that
\* was started and stopped
C22_Witness ==
    /\ notification = "Please open a folder before recording"
    /\ nextId = 1
    /\ finalized = {1}
    /\ currentSession = NoSession
    /\ liveSaveListeners = 0

\* the distinct file paths of the changes of a session
DistinctFiles(s) == {s.changes[i].file : i \in 1..Len(s.changes)}

\* C23: in every document that stop() has persisted, stats.filesChanged is
\* the number of distinct file paths of its changes and stats.commitsCount
\* is the length of its commits
C23_StatsMatchEvents ==
    \A n \in DOMAIN store :
       LET d == Parse(store[n])
       IN (Parses(store[n]) /\ d.sessionId > 0) =>
             /\ d.stats.filesChanged = Cardinality(DistinctFiles(d))
             /\ d.stats.commitsCount = Len(d.commits)

\* the step is a save notification for file path f
SaveOf(f) ==
    /\ Len(saveEvents') = Len(saveEvents) + 1
    /\ saveEvents'[Len(saveEvents')].file = f

\* C24: while a session is recorded, a save notification for a path that is
\* not ignored appends exactly one change: the changes so far are kept and
\* the length grows by one, also when the same file was saved before
C24_OneChangePerSave ==
    [][\A f \in Files \ IgnoredFiles :
          (SaveOf(f) /\ isRecording /\ currentSession.sessionId # 0) =>
             /\ Len(currentSession'.changes) = Len(currentSession.changes) + 1
             /\ Prefix(currentSession.changes, currentSession'.changes)
             /\ currentSession'.changes[Len(currentSession'.changes)].file = f]_vars

\* C25: a save notification for a path that an ignore rule matches leaves
\* the session as it is: its changes and commits, the set of distinct files
\* and the file count
C25_IgnoredSaveChangesNothing ==
    [][\A f \in IgnoredFiles :
          SaveOf(f) =>
             UNCHANGED <<currentSession, uniqueFilesChanged,
                         filesChangedCount>>]_vars

\* C26: the endTime of a session is assigned once and is not before its
\* startTime: an endTime that the session in memory has, it keeps for as
\* long as it is the session in memory
C26_EndTimeAssignedOnce ==
    /\ [](currentSession.endTime # Absent =>
             currentSession.endTime >= currentSession.startTime)
    /\ [][(/\ currentSession.sessionId # 0
           /\ currentSession.endTime # Absent
           /\ currentSession'.sessionId = currentSession.sessionId)
          => currentSession'.endTime = currentSession.endTime]_vars

\* the session s has been finalized: it has an endTime and stats
HasStats(s) == s.stats # NoStats

HasEndTime(s) == s.endTime # Absent

\* a step that appends a change or a commit to the session in memory
Appends ==
    /\ currentSession.sessionId # 0
    /\ currentSession'.sessionId = currentSession.sessionId
    /\ \/ Len(currentSession'.changes) > Len(currentSession.changes)
       \/ Len(currentSession'.commits) > Len(currentSession.commits)

\* C27: a session has stats exactly when it has been finalized: the session
\* in memory has stats if and only if it has an endTime, no event is appended
\* to a session that has either, and every persisted document has both
C27_StatsIffFinalized ==
    /\ [](HasStats(currentSession) <=> HasEndTime(currentSession))
    /\ [][Appends => ~HasStats(currentSession) /\ ~HasEndTime(currentSession)]_vars
    /\ [](\A n \in DOMAIN store :
             LET d == Parse(store[n])
             IN  (Parses(store[n]) /\ d.sessionId > 0) =>
                    HasStats(d) /\ HasEndTime(d))

\* the recorder where every await other than the writeFile of the session
\* document settles and its continuation runs: the directory operations of
\* the store and the calls of the repository inspector
SpecLive ==
    /\ Init
    /\ [][NextRecorder]_vars
    /\ WF_vars(StartCheckIsRepo)
    /\ WF_vars(StartLog)
    /\ WF_vars(SaveReadDirectory)
    /\ WF_vars(SaveDelete)

\* a stop() has passed the guard of stopRecording and is suspended in the save
StopAccepted == stops # <<>>

\* C28: after every accepted stop() the recorder reaches Idle, where
\* start() is accepted, whether or not the writeFile of the store has completed
C28_StopReachesIdle == StopAccepted ~> ~StartRejected

\* C29: no invocation of start(), stop() or dispose() ends with an exception
\* that nothing catches, whatever the interleaving and the failures of the
\* repository inspector and of the filesystem
C29_NoUnhandledException == ~unhandled

\* ------------------------------------------------ summarizing a session
\* the texts that a saved document can have
Contents == {1, 2}

\* the startTime of the session that is summarized
AnalysisStart == MaxTime - 4

\* the changes of a recorded session: saves of files that recordFileSave
\* does not skip, in the order of their timestamps, each with the text of
\* the document
AnalysisChanges ==
    LET events == [file : {f \in Files : ~shouldIgnoreFile(f)},
                   timestamp : (AnalysisStart + 1)..(AnalysisStart + 2),
                   content : Contents]
    IN  {cs \in UNION {[1..n -> events] : n \in 0..MaxChanges} :
            \A i \in 1..(Len(cs) - 1) : cs[i].timestamp <= cs[i + 1].timestamp}

\* the sessions that a stop() has finalized and stored: with and without a
\* repository, with and without a commit
AnalysisSessions ==
    LET all ==
          {[sessionId |-> 1, startTime |-> AnalysisStart,
            endTime |-> AnalysisStart + 3, repository |-> tracking,
            changes |-> cs,
            commits |-> IF committed
                        THEN <<[hash |-> 1, timestamp |-> AnalysisStart + 1]>>
                        ELSE <<>>,
            stats |-> [filesChanged |->
                           Cardinality({cs[i].file : i \in 1..Len(cs)}),
                       commitsCount |-> IF committed THEN 1 ELSE 0,
                       duration |-> calculateDuration(AnalysisStart,
                                                      AnalysisStart + 3)],
            summary |-> FALSE] :
              cs \in AnalysisChanges,
              tracking \in BOOLEAN,
              committed \in BOOLEAN}
    IN  {s \in all : s.commits = <<>> \/ s.repository}

\* the state when the recording of session s has been stopped and stored and
\* generateSessionSummary, with s selected, awaits the summarization service
Summarizing(s) ==
    /\ isRecording = FALSE
    /\ currentSession = NoSession
    /\ saveListener = FALSE
    /\ filesChangedCount = 0
    /\ uniqueFilesChanged = {}
    /\ git = 1
    /\ isGitRepo = s.repository
    /\ lastSeenCommitHash = Len(s.commits)
    /\ pollInterval = FALSE
    /\ onCommitCallback = FALSE
    /\ liveSaveListeners = 0
    /\ liveTimers = 0
    /\ notification = "none"
    /\ unhandled = FALSE
    /\ now = s.endTime + 1
    /\ repo = [i \in 1..Len(s.commits) |-> s.commits[i].timestamp]
    /\ store = WriteFile(OldStore, FileName(s.startTime), Stringify(s))
    /\ maxSessionsToKeep = MaxSessionsToKeep
    /\ starts = [a \in StartAwaits |-> 0]
    /\ stops = <<>>
    /\ polls = <<>>
    /\ nextId = 1
    /\ finalized = {1}
    /\ historyAtStart = 0
    /\ lastPoll = NoPoll
    /\ missed = 0
    /\ saveEvents = [i \in 1..Len(s.changes) |->
                        [timestamp |-> s.changes[i].timestamp,
                         file |-> s.changes[i].file]]
    /\ ops = <<[NewOp("summary") EXCEPT !.pc = "ai", !.picked = Parse(Stringify(s))]>>
    /\ loaded = NoLoad

NextAnalysis ==
    \/ SummaryAI
    \/ SummaryWriteFile

SpecAnalysis == (\E s \in AnalysisSessions : Summarizing(s)) /\ [][NextAnalysis]_vars

\* the sessions that differ from s at most in the content of their changes
ContentVariants(s) ==
    {[s EXCEPT !.changes = [i \in 1..Len(s.changes) |->
                               [s.changes[i] EXCEPT !.content = text[i]]]] :
        text \in [1..Len(s.changes) -> Contents]}

\* a summarization request has been sent for the session of command i
Requested(i) == ops[i].cmd = "summary" /\ ops[i].pc = "writeFile"

\* C30: what is handed to the summarization service does not depend on the
\* content of the files: every session that differs from the summarized one
\* only in the content of its changes has the same analysis projection and
\* the same prompt as the one that was sent
C30_PromptIgnoresContent ==
    \A i \in 1..Len(ops) :
       Requested(i) =>
          \A v \in ContentVariants(ops[i].picked) :
             /\ prepareAnalysisData(v) = prepareAnalysisData(ops[i].picked)
             /\ buildPrompt(prepareAnalysisData(v)) = ops[i].prompt

\* a request was sent for a session in a repository with a commit and two
\* changes whose contents differ
C30_Witness ==
    \E i \in 1..Len(ops) :
       /\ Requested(i)
       /\ Len(ops[i].picked.changes) = 2
       /\ ops[i].picked.changes[1].content # ops[i].picked.changes[2].content
       /\ ops[i].picked.changes[1].file # ops[i].picked.changes[2].file
       /\ ops[i].picked.commits # <<>>
       /\ Len(ops[i].prompt) > 0

\* a comes before b in the sequence s
Precedes(s, a, b) ==
    \E i, j \in 1..Len(s) : i < j /\ s[i] = a /\ s[j] = b

CreatedBetween(lo, hi) == [k \in 1..(hi - lo) |-> lo + k]

\* the checkpoint is a commit of the log that a poll with snapshot n reads
InLog(checkpoint, n) ==
    /\ checkpoint >= 1
    /\ checkpoint <= n
    /\ n - checkpoint < LogMaxCount

\* C32: a poll that delivers commits delivers them oldest first: the commits
\* after the checkpoint when the log holds it, in the order of their
\* creation, and the session's commits grow by them in that order
C32_OldestFirst ==
    [][lastPoll'.kind = "ok" =>
          LET new == lastPoll'.emitted
          IN  /\ \A j, k \in 1..Len(new) : j < k => new[j] < new[k]
              /\ InLog(lastSeenCommitHash, lastPoll'.snap) =>
                    new = CreatedBetween(lastSeenCommitHash, lastPoll'.snap)
              /\ (isRecording /\ currentSession.sessionId # 0) =>
                    currentSession'.commits =
                        currentSession.commits
                            \o [k \in 1..Len(new) |-> CommitInfo(new[k])]]_vars

\* one poll has delivered the two commits made since the last poll, and
\* the session holds them in the order of their creation
C32_Witness ==
    /\ lastPoll.kind = "ok"
    /\ lastPoll.emitted = <<1, 2>>
    /\ isRecording
    /\ Len(currentSession.commits) = 2
    /\ currentSession.commits[1].hash = 1
    /\ currentSession.commits[2].hash = 2

\* C33: while Recording, the live file count is the number of distinct file
\* paths in the changes of the current session
C33_LiveCountIsDistinctFiles ==
    (isRecording /\ currentSession.sessionId # 0) =>
        filesChangedCount = Cardinality(DistinctFiles(currentSession))

\* a file was saved twice while Recording and is counted once
C33_Witness ==
    /\ isRecording
    /\ Len(currentSession.changes) = 2
    /\ currentSession.changes[1].file = currentSession.changes[2].file
    /\ filesChangedCount = 1

\* a step in which dispose() returns: its last statements have disposed the
\* commit watcher
DisposeReturns == git > 0 /\ git' = 0

\* the dispose() that returns in this step was invoked while Recording: in
\* this step, or earlier and its stopRecording() returns now
DisposedWhileRecording ==
    \/ isRecording
    \/ \E i \in 1..Len(stops) : stops[i].dispose /\ stops' = RemoveAt(stops, i)

\* a step in which the stopRecording() that dispose() called writes the
\* document of stop i
DisposeWrites(i) ==
    /\ stops[i].dispose
    /\ stops[i].pc = "writeFile"
    /\ stops' = RemoveAt(stops, i)
    /\ store' # store

\* C34: dispose() while Recording finalizes and persists the session as
\* stop() does and leaves the recorder Idle with no poll timer and no save
\* subscription live; dispose() while Idle writes no document
C34_DisposeTearsDown ==
    [][/\ (DisposeReturns /\ DisposedWhileRecording) =>
             /\ ~isRecording'
             /\ liveTimers' = 0
             /\ liveSaveListeners' = 0
       /\ (DisposeReturns /\ ~DisposedWhileRecording) => store' = store
       /\ \A i \in 1..Len(stops) :
             DisposeWrites(i) =>
                LET name == FileName(stops[i].json.startTime)
                IN  /\ DOMAIN store' = DOMAIN store \cup {name}
                    /\ HasStats(Parse(store'[name]))
                    /\ HasEndTime(Parse(store'[name]))
                    /\ Parse(store'[name]).sessionId \in finalized]_vars

\* the sessions of this run that the store or the recorder holds
KnownSessions ==
    {Parse(store[n]) : n \in {m \in DOMAIN store : Parses(store[m])}}
        \cup {currentSession}

\* the change events and the commits of the session s
EventsOf(s) ==
    {<<"change", s.changes[i].file, s.changes[i].timestamp>> :
        i \in 1..Len(s.changes)}
        \cup {<<"commit", s.commits[i].hash>> : i \in 1..Len(s.commits)}

\* a step in which a start() creates a session
CreatesSession == nextId' = nextId + 1

\* C35: a start() creates a session with no changes, no commits and a file
\* count of 0, and no event recorded in a session appears in a later one
C35_SessionsStartEmpty ==
    /\ [][CreatesSession =>
             /\ currentSession'.sessionId = nextId'
             /\ currentSession'.changes = <<>>
             /\ currentSession'.commits = <<>>
             /\ filesChangedCount' = 0
             /\ uniqueFilesChanged' = {}]_vars
    /\ [](\A s, u \in KnownSessions :
             (s.sessionId > 0 /\ u.sessionId > s.sessionId) =>
                 EventsOf(s) \cap EventsOf(u) = {})

\* C36: in every reachable state at most one poll timer and at most one
\* file-save subscription are live, and whenever the recorder is Idle with no
\* start() in progress none is live: every timer and subscription that start()
\* creates is cancelled by the matching stop().
StartInProgress == \E a \in StartAwaits : starts[a] > 0

C36_AtMostOneTimerAndListener ==
    /\ liveTimers <= 1
    /\ liveSaveListeners <= 1
    /\ (~isRecording /\ ~StartInProgress) => (liveTimers = 0 /\ liveSaveListeners = 0)

\* C37: when a timer tick fires while the previous poll is still awaiting the
\* repository log, the two overlapping polls together emit each new commit
\* exactly once: the poll that the tick started emits no commit that the
\* session has already recorded, and it emits every commit between the
\* checkpoint that the previous poll left and the head of the log it read
C37_OverlappingPollsEmitOnce ==
    [][(lastPoll'.kind = "ok" /\ lastPoll'.overlapped /\ ~lastPoll'.cancelled) =>
          /\ \A k \in 1..Len(lastPoll'.emitted) :
                lastPoll'.emitted[k] \notin Hashes(currentSession)
          /\ Distinct(currentSession'.commits)
          /\ lastPoll'.emitted = Between(lastSeenCommitHash, lastPoll'.snap)]_vars

\* C38: during a session the checkpoint never moves backwards: after every
\* poll it is the hash of a commit at least as recent as the commit it
\* designated before the poll
C38_CheckpointMonotonic ==
    [][(lastPoll'.kind # "none" /\ currentSession.sessionId # 0
           /\ currentSession'.sessionId = currentSession.sessionId) =>
          lastSeenCommitHash' >= lastSeenCommitHash]_vars

\* ------------------------------------------------ the retention setting
\* the values that the user gives to codetrace.maxSessionsToKeep
Settings == {-1, 0, 1, MaxSessionsToKeep}

\* the contents of .codetrace: any of the files of StoreDocs
Stores == {[n \in S |-> StoreDocs[n]] : S \in SUBSET DOMAIN StoreDocs}

\* the end of one recording
NextRetention ==
    \/ FileSave
    \/ StopCall
    \/ SaveReadDirectory
    \/ SaveDelete
    \/ SaveWriteFile

\* the end of one recording under any value of the setting and any content
\* of the store, where every operation of the store settles and its
\* continuation runs
SpecRetention ==
    /\ \E setting \in Settings, docs \in Stores :
          RecordingUnder(<<>>, docs, StoreStart, FALSE, setting)
    /\ [][NextRetention]_vars
    /\ WF_vars(SaveReadDirectory)
    /\ WF_vars(SaveDelete)
    /\ WF_vars(SaveWriteFile)

\* C39: the retention cleanup terminates for every value of the configured
\* maximum (zero and negative values included) and every content of the
\* store, so that every stop() that was accepted returns
C39_CleanupTerminates == StopAccepted ~> (stops = <<>>)

\* stop i ends in this step and its save has failed: writeFile was rejected
\* and the catch of lines 588-591 has shown the error
SaveFails(i) ==
    /\ stops[i].pc = "writeFile"
    /\ stops' = RemoveAt(stops, i)
    /\ notification' = "Failed to save session"

\* C40: a stop() whose save fails leaves the set of stored session documents
\* as it was when stop() was called: no document that was stored then has
\* been evicted
C40_FailedSaveKeepsStore ==
    [][\A i \in 1..Len(stops) :
          SaveFails(i) => DOMAIN store' = stops[i].before]_vars
====
